---------------------------- MODULE Spec2Model ----------------------------
(***************************************************************************)
(* Jack's car rental (chapter-4/car_rental.py): the CarRental solver.      *)
(*                                                                         *)
(* The state is the solver object's fields (state_values, policy, the two  *)
(* per-location models), the local tables of a running sweep or scan       *)
(* (new_values, new_policy), the position of the running call, the outcome *)
(* of the last call that ended, and the number of calls the caller will    *)
(* still make (budget).                                                    *)
(*                                                                         *)
(* Sizes.  The source sets MAX_CARS = 20 and MAX_MOVE = 5 (441 states).    *)
(* The model keeps every formula of the source and runs it on a smaller    *)
(* lot: MAX_CARS and MAX_MOVE are bounds of the model, with               *)
(* MAX_CARS > 2 * MAX_MOVE as in the source (20 > 2 * 5).                  *)
(*                                                                         *)
(* Numbers.  Python floats are modelled in fixed point: a real x is the    *)
(* integer floor(x * SCALE).  A product of two fixed-point numbers is      *)
(* rescaled by SCALE (Mul).                                                *)
(*                                                                         *)
(* Results.  A call's outcome is a record [raised, value]: raised is ""    *)
(* or the name of the exception that ended the call, value is the set      *)
(* holding the returned value ({} for None or for a raised call).          *)
(***************************************************************************)
EXTENDS Integers, Sequences, FiniteSets, TLC

VARIABLES state_values, policy, probs_1, rewards_1, probs_2, rewards_2,
          new_values, new_policy, pc, caller, cursor, theta, iteration,
          budget, ret

vars == <<state_values, policy, probs_1, rewards_1, probs_2, rewards_2,
          new_values, new_policy, pc, caller, cursor, theta, iteration,
          budget, ret>>

solver == <<state_values, policy, probs_1, rewards_1, probs_2, rewards_2>>

-----------------------------------------------------------------------------
(* Bounds of the model *)

MAX_CARS == 5

MAX_MOVE == 2

SCALE == 1000

MaxCalls == 3

Pad == 1

(* Program constants *)

CAR_RENTAL_COST == 10

CAR_MOVE_COST == 2

REQUEST_1_LAMBDA == 3

DROPOFF_1_LAMBDA == 3

REQUEST_2_LAMBDA == 4

DROPOFF_B_LAMBDA == 2

\* DISCOUNT = 0.9, as tenths
DISCOUNT_TENTHS == 9

-----------------------------------------------------------------------------
(* Arithmetic *)

Max(a, b) == IF a >= b THEN a ELSE b

Min(a, b) == IF a <= b THEN a ELSE b

Abs(a) == IF a >= 0 THEN a ELSE -a

Mul(a, b) == (a * b) \div SCALE

Discounted(v) == (DISCOUNT_TENTHS * v) \div 10

RECURSIVE SumUpTo(_, _)
SumUpTo(f, n) == IF n = 0 THEN 0 ELSE f[n] + SumUpTo(f, n - 1)

\* the largest element of a non-empty set of numbers
SetMax(S) == CHOOSE m \in S : \A x \in S : m >= x

RECURSIVE Pow(_, _)
Pow(b, n) == IF n = 0 THEN 1 ELSE b * Pow(b, n - 1)

RECURSIVE Factorial(_)
Factorial(n) == IF n = 0 THEN 1 ELSE n * Factorial(n - 1)

\* math.exp(-lam) in millionths, for the rates the program uses
ExpNegMicro(lam) ==
    CASE lam = 2 -> 135335
      [] lam = 3 -> 49787
      [] lam = 4 -> 18316

(* Call outcomes *)

Ok(v) == [raised |-> "", value |-> {v}]

Raise(e) == [raised |-> e, value |-> {}]

ReturnNone == [raised |-> "", value |-> {}]

Val(r) == CHOOSE v \in r.value : TRUE

-----------------------------------------------------------------------------
(* The state space and the tables *)

\* the list of moves, -5 to 5 in the source: those of magnitude at most MAX_MOVE
Actions == [i \in 1..(2 * MAX_MOVE + 1) |-> i - MAX_MOVE - 1]

\* range(MAX_CARS + max(ACTIONS) + 1)
ModelRange == 0..(MAX_CARS + SetMax({Actions[i] : i \in 1..Len(Actions)}))

CarRange == 0..MAX_CARS

States == CarRange \X CarRange

NumStates == (MAX_CARS + 1) * (MAX_CARS + 1)

\* the idx-th state of "for available_A ...: for available_B ...:"
StateAt(idx) == <<idx \div (MAX_CARS + 1), idx % (MAX_CARS + 1)>>

Zeros == [s \in States |-> 0]

\* np.empty_like: a table none of whose cells has been written
Empty == [s \in {} |-> 0]

Store(table, s, v) ==
    [x \in (DOMAIN table) \cup {s} |-> IF x = s THEN v ELSE table[x]]

-----------------------------------------------------------------------------
(* precompute_model *)

\* math.exp(-lam) * (math.pow(lam, n) / math.factorial(n)): the quotient in
\* thousandths, the product in millionths, the result in units of 1/SCALE
poisson_probability(n, lam) ==
    LET quotient == (Pow(lam, n) * 1000) \div Factorial(n)
        product == (ExpNegMicro(lam) * quotient) \div 1000
    IN  (product * SCALE) \div (1000 * 1000)

NewN_unclamped(n, requests, dropoffs) == n + dropoffs - Min(requests, n)

NewN(n, requests, dropoffs) ==
    Max(0, Min(MAX_CARS, n + dropoffs - Min(requests, n)))

\* as precompute_model, over range(MAX_CARS + 1)
precompute_model_short(lambda_requests, lambda_dropoffs) ==
    LET Rng == CarRange
        top == Cardinality(Rng)
        req(k) == poisson_probability(k, lambda_requests)
        drp(j) == poisson_probability(j, lambda_dropoffs)
        Keys == {<<n, NewN(n, k, j)>> : n \in Rng, k \in Rng, j \in Rng}
        R == [n \in Rng |->
                 SumUpTo([i \in 1..top |->
                     CAR_RENTAL_COST * req(i - 1) * Min(i - 1, n)], top)]
        P == [key \in Keys |->
                 SumUpTo([i \in 1..top |->
                     SumUpTo([h \in 1..top |->
                         IF NewN(key[1], i - 1, h - 1) = key[2]
                         THEN Mul(req(i - 1), drp(h - 1)) ELSE 0], top)], top)]
    IN  [P |-> P, R |-> R]

precompute_model(lambda_requests, lambda_dropoffs) ==
    LET Rng == ModelRange
        top == Cardinality(Rng)
        req(k) == poisson_probability(k, lambda_requests)
        drp(j) == poisson_probability(j, lambda_dropoffs)
        Keys == {<<n, NewN(n, k, j)>> : n \in Rng, k \in Rng, j \in Rng}
        R == [n \in Rng |->
                 SumUpTo([i \in 1..top |->
                     CAR_RENTAL_COST * req(i - 1) * Min(i - 1, n)], top)]
        P == [key \in Keys |->
                 SumUpTo([i \in 1..top |->
                     SumUpTo([h \in 1..top |->
                         IF NewN(key[1], i - 1, h - 1) = key[2]
                         THEN Mul(req(i - 1), drp(h - 1)) ELSE 0], top)], top)]
    IN  [P |-> P, R |-> R]

Model_1 == precompute_model(REQUEST_1_LAMBDA, DROPOFF_1_LAMBDA)

Model_2 == precompute_model(REQUEST_2_LAMBDA, DROPOFF_B_LAMBDA)

-----------------------------------------------------------------------------
(* The environment's functions *)

get_transition_probability(state, new_state) ==
    IF  /\ <<state[1], new_state[1]>> \in DOMAIN probs_1
        /\ <<state[2], new_state[2]>> \in DOMAIN probs_2
    THEN Ok(Mul(probs_1[<<state[1], new_state[1]>>],
                probs_2[<<state[2], new_state[2]>>]))
    ELSE Raise("KeyError")

get_reward(state) ==
    IF state[1] \in DOMAIN rewards_1 /\ state[2] \in DOMAIN rewards_2
    THEN Ok(rewards_1[state[1]] + rewards_2[state[2]])
    ELSE Raise("KeyError")

step(state, action) ==
    LET new_state == <<state[1] - action, state[2] + action>>
        reward == get_reward(new_state)
    IN  IF reward.raised # "" THEN reward
        ELSE Ok(<<new_state, Val(reward)>>)

get_valid_action_unclipped(state, action) ==
    Max(-state[2], Min(action, state[1]))

get_valid_action(state, action) ==
    LET available == Max(-state[2], Min(action, state[1]))
    IN  Max(-MAX_MOVE, Min(MAX_MOVE, available))

\* list(range(start, stop))
RECURSIVE RangeList(_, _)
RangeList(start, stop) ==
    IF start >= stop THEN <<>> ELSE <<start>> \o RangeList(start + 1, stop)

get_available_actions(state) ==
    RangeList(Max(-MAX_CARS, -state[2]), Min(MAX_CARS, state[1]) + 1)

\* Backup is the body of bellman_expectation after its first two lines, which
\* give it the clipped action a and the outcome of step
bellman_expectation(state, action) ==
    LET Stepped == {<<a, step(state, a)>> :
                        a \in {get_valid_action(state, action)}}
        Backup(a, stepped) ==
            IF stepped.raised # ""
            THEN [raised |-> stepped.raised, value |-> {}, morning |-> {}]
            ELSE
            LET morning == Val(stepped)[1]
                r == Val(stepped)[2]
                p == [i \in 1..NumStates |->
                         get_transition_probability(morning, StateAt(i - 1))]
                term == [i \in 1..NumStates |->
                         Mul(Val(p[i]),
                             r + Discounted(state_values[StateAt(i - 1)]))]
            IN  IF \E i \in 1..NumStates : p[i].raised # ""
                THEN [raised |-> "KeyError", value |-> {},
                      morning |-> {morning}]
                ELSE [raised |-> "",
                      value |-> {SumUpTo(term, NumStates)
                                     - CAR_MOVE_COST * Abs(a) * SCALE},
                      morning |-> {morning}]
    IN  CHOOSE outcome \in {Backup(m[1], m[2]) : m \in Stepped} : TRUE

-----------------------------------------------------------------------------
(* policy_evaluation, policy_improvement: the work on one state *)

\* "new_values[state] = new_state_value": the tables after visiting one state
EvalWrite_inplace(values, fresh, state, v) ==
    [values |-> [values EXCEPT ![state] = v], fresh |-> Store(fresh, state, v)]

EvalWrite(values, fresh, state, v) ==
    [values |-> values, fresh |-> Store(fresh, state, v)]

\* np.max(np.abs(self.state_values - new_values))
Delta(values, fresh) ==
    SetMax({Abs(values[s] - fresh[s]) : s \in States})

\* "if value > best_value", best_value starting at -inf
Better_or_equal(value, best) == best.neg_inf \/ value >= best.value

Better(value, best) == best.neg_inf \/ value > best.value

\* "for action in self.get_available_actions(state)": the i-th round of the
\* loop, from best (the loop's best_value and best_action so far); value and
\* b are the numbers the round works with
RECURSIVE ScanActions(_, _, _, _)
ScanActions(state, actions, i, best) ==
    IF i > Len(actions) THEN best
    ELSE CHOOSE result \in
             {ScanActions(state, actions, i + 1,
                  IF Better(value, b)
                  THEN [neg_inf |-> FALSE, value |-> value, action |-> actions[i]]
                  ELSE b) :
                      value \in {Val(bellman_expectation(state, actions[i]))},
                      b \in {best}} : TRUE

\* the body of the loop over the states in policy_improvement
BestAction(state) ==
    ScanActions(state, get_available_actions(state), 1,
                [neg_inf |-> TRUE, value |-> 0, action |-> policy[state]]).action

\* "new_policy[available_A, available_B] = best_action"
ImproveWrite(pol, fresh, state, a) ==
    [pol |-> pol, fresh |-> Store(fresh, state, a)]

\* (new_policy == self.policy).all()
Converged_changed(fresh, pol) == fresh # pol

Converged(fresh, pol) == fresh = pol

\* theta=1e-3
DefaultTheta == SCALE \div 1000

\* the thresholds a caller passes: never met, the default, met at once
Thetas == {0, DefaultTheta, 1000 * SCALE}

-----------------------------------------------------------------------------
(* The solver: __init__ and the calls of its methods *)

\* the outcome of a call: args and actions are lists of integers, value the
\* set holding the number or truth value returned, morning the set holding
\* the state returned (step) or worked from (bellman_expectation)
Outcome(op, args, raised, value, morning, actions) ==
    [op |-> op, args |-> args, raised |-> raised, value |-> value,
     morning |-> morning, actions |-> actions]

Returned(op, args, r) == Outcome(op, args, r.raised, r.value, {}, <<>>)

\* __init__: reset(), with no call under way
Constructed ==
    /\ state_values = Zeros
    /\ policy = Zeros
    /\ probs_1 = Model_1.P
    /\ rewards_1 = Model_1.R
    /\ probs_2 = Model_2.P
    /\ rewards_2 = Model_2.R
    /\ new_values = Empty
    /\ new_policy = Empty
    /\ pc = "idle"
    /\ caller = "none"
    /\ cursor = 0
    /\ theta = DefaultTheta
    /\ iteration = 0

\* the solver, and the number of calls the caller goes on to make
Init ==
    /\ Constructed
    /\ budget = MaxCalls
    /\ ret = Returned("__init__", <<>>, ReturnNone)

Reset ==
    /\ pc = "idle"
    /\ budget > 0
    /\ budget' = budget - 1
    /\ state_values' = Zeros
    /\ policy' = Zeros
    /\ probs_1' = Model_1.P
    /\ rewards_1' = Model_1.R
    /\ probs_2' = Model_2.P
    /\ rewards_2' = Model_2.R
    /\ ret' = Returned("reset", <<>>, ReturnNone)
    /\ UNCHANGED <<new_values, new_policy, pc, caller, cursor, theta, iteration>>

\* entering policy_evaluation: "new_values = np.empty_like(...)"
EnterEvaluation(th) ==
    /\ pc' = "policy_evaluation"
    /\ theta' = th
    /\ cursor' = 0
    /\ new_values' = Empty

\* entering policy_improvement: "new_policy = np.empty_like(...)"
EnterImprovement ==
    /\ pc' = "policy_improvement"
    /\ cursor' = 0
    /\ new_policy' = Empty

CallPolicyEvaluation ==
    /\ pc = "idle"
    /\ budget > 0
    /\ budget' = budget - 1
    /\ caller' = "none"
    /\ \E th \in Thetas : EnterEvaluation(th)
    /\ UNCHANGED <<solver, new_policy, iteration, ret>>

CallPolicyImprovement ==
    /\ pc = "idle"
    /\ budget > 0
    /\ budget' = budget - 1
    /\ caller' = "none"
    /\ EnterImprovement
    /\ UNCHANGED <<solver, new_values, theta, iteration, ret>>

CallPolicyIteration ==
    /\ pc = "idle"
    /\ budget > 0
    /\ budget' = budget - 1
    /\ caller' = "policy_iteration"
    /\ iteration' = 1
    /\ EnterEvaluation(DefaultTheta)
    /\ UNCHANGED <<solver, new_policy, ret>>

\* one state of a sweep
EvalState ==
    /\ pc = "policy_evaluation"
    /\ cursor < NumStates
    /\ LET state == StateAt(cursor)
           action == policy[state]
       IN  \E new_state_value \in {Val(bellman_expectation(state, action))} :
               LET w == EvalWrite(state_values, new_values, state,
                                  new_state_value)
               IN  /\ state_values' = w.values
                   /\ new_values' = w.fresh
    /\ cursor' = cursor + 1
    /\ UNCHANGED <<policy, probs_1, rewards_1, probs_2, rewards_2, new_policy,
                   pc, caller, theta, iteration, budget, ret>>

\* after the last state of a sweep
EvalSweepEnd ==
    /\ pc = "policy_evaluation"
    /\ cursor = NumStates
    /\ LET delta == Delta(state_values, new_values)
       IN  /\ state_values' = new_values
           /\ new_values' = Empty
           /\ IF delta < theta
              THEN /\ ret' = Returned("policy_evaluation", <<theta>>, ReturnNone)
                   /\ IF caller = "policy_iteration"
                      THEN EnterImprovement /\ UNCHANGED theta
                      ELSE /\ pc' = "idle"
                           /\ UNCHANGED <<cursor, theta, new_policy>>
              ELSE /\ cursor' = 0
                   /\ UNCHANGED <<pc, theta, new_policy, ret>>
    /\ UNCHANGED <<policy, probs_1, rewards_1, probs_2, rewards_2, caller,
                   iteration, budget>>

\* one state of a scan: the loop over its available actions
ImproveState ==
    /\ pc = "policy_improvement"
    /\ cursor < NumStates
    /\ LET state == StateAt(cursor)
       IN  \E best_action \in {BestAction(state)} :
               LET w == ImproveWrite(policy, new_policy, state, best_action)
               IN  /\ policy' = w.pol
                   /\ new_policy' = w.fresh
    /\ cursor' = cursor + 1
    /\ UNCHANGED <<state_values, probs_1, rewards_1, probs_2, rewards_2,
                   new_values, pc, caller, theta, iteration, budget, ret>>

\* after the last state of a scan
ImproveScanEnd ==
    /\ pc = "policy_improvement"
    /\ cursor = NumStates
    /\ LET converged == Converged(new_policy, policy)
       IN  /\ policy' = new_policy
           /\ new_policy' = Empty
           /\ IF caller = "policy_iteration"
              THEN IF converged
                   THEN /\ ret' = Returned("policy_iteration", <<>>, ReturnNone)
                        /\ pc' = "idle"
                        /\ UNCHANGED <<cursor, theta, new_values, iteration>>
                   ELSE /\ ret' = Returned("policy_improvement", <<>>,
                                           Ok(converged))
                        /\ iteration' = iteration + 1
                        /\ EnterEvaluation(DefaultTheta)
              ELSE /\ ret' = Returned("policy_improvement", <<>>, Ok(converged))
                   /\ pc' = "idle"
                   /\ UNCHANGED <<cursor, theta, new_values, iteration>>
    /\ UNCHANGED <<state_values, probs_1, rewards_1, probs_2, rewards_2,
                   caller, budget>>

Next ==
    \/ Reset
    \/ CallPolicyEvaluation
    \/ CallPolicyImprovement
    \/ CallPolicyIteration
    \/ EvalState
    \/ EvalSweepEnd
    \/ ImproveState
    \/ ImproveScanEnd

Spec == Init /\ [][Next]_vars

\* one call on a freshly built solver; a started call keeps running (the
\* interpreter executes the next statement)
InitOneCall ==
    /\ Constructed
    /\ budget = 1
    /\ ret = Returned("__init__", <<>>, ReturnNone)

FairSpec == InitOneCall /\ [][Next]_vars /\ WF_vars(Next)

-----------------------------------------------------------------------------
(* Calls of the environment's functions on a freshly built solver *)

ProbeRange == (0 - Pad)..(MAX_CARS + MAX_MOVE + Pad)

ProbeStates == ProbeRange \X ProbeRange

ProbeActions == (0 - MAX_CARS - MAX_MOVE - Pad)..(MAX_CARS + MAX_MOVE + Pad)

\* the arguments of the call to come: a state, and an action or a second state
InitFn ==
    /\ Constructed
    /\ budget = 0
    /\ \/ \E state \in ProbeStates, action \in ProbeActions :
              ret = Outcome("state, action",
                            <<state[1], state[2], action>>, "", {}, {}, <<>>)
       \/ \E state \in ProbeStates, new_state \in ProbeStates :
              ret = Outcome("state, new_state",
                            <<state[1], state[2], new_state[1], new_state[2]>>,
                            "", {}, {}, <<>>)

ArgState == <<ret.args[1], ret.args[2]>>

ArgAction == ret.args[3]

ArgNewState == <<ret.args[3], ret.args[4]>>

Unchanged == UNCHANGED <<solver, new_values, new_policy, pc, caller, cursor,
                         theta, iteration, budget>>

CallGetValidAction ==
    /\ ret.op = "state, action"
    /\ ArgState \in States
    /\ ret' = Outcome("get_valid_action", ret.args, "",
                      {get_valid_action(ArgState, ArgAction)}, {}, <<>>)
    /\ Unchanged

CallGetAvailableActions ==
    /\ ret.op = "state, action"
    /\ ArgState \in States
    /\ ret' = Outcome("get_available_actions", ArgState, "", {}, {},
                      get_available_actions(ArgState))
    /\ Unchanged

CallStep ==
    /\ ret.op = "state, action"
    /\ LET r == step(ArgState, ArgAction)
       IN  ret' = Outcome("step", ret.args, r.raised,
                          {v[2] : v \in r.value}, {v[1] : v \in r.value}, <<>>)
    /\ Unchanged

CallGetTransitionProbability ==
    /\ ret.op = "state, new_state"
    /\ LET r == get_transition_probability(ArgState, ArgNewState)
       IN  ret' = Outcome("get_transition_probability", ret.args, r.raised,
                          r.value, {}, <<>>)
    /\ Unchanged

CallBellmanExpectation ==
    /\ ret.op = "state, action"
    /\ LET r == bellman_expectation(ArgState, ArgAction)
       IN  ret' = Outcome("bellman_expectation", ret.args, r.raised,
                          r.value, r.morning, <<>>)
    /\ Unchanged

NextFn ==
    \/ CallGetValidAction
    \/ CallGetAvailableActions
    \/ CallStep
    \/ CallGetTransitionProbability
    \/ CallBellmanExpectation

SpecFn == InitFn /\ [][NextFn]_vars

-----------------------------------------------------------------------------
(* Properties *)

\* An action is feasible for a state: at most MAX_MOVE cars, no more than the
\* source location holds, neither location above MAX_CARS afterwards
Feasible(state, a) ==
    /\ Abs(a) <= MAX_MOVE
    /\ -state[2] <= a /\ a <= state[1]
    /\ state[1] - a <= MAX_CARS
    /\ state[2] + a <= MAX_CARS

\* as Feasible, a location holding up to MAX_CARS + MAX_MOVE cars afterwards
FeasibleOverfull(state, a) ==
    /\ Abs(a) <= MAX_MOVE
    /\ -state[2] <= a /\ a <= state[1]
    /\ state[1] - a \in 0..(MAX_CARS + MAX_MOVE)
    /\ state[2] + a \in 0..(MAX_CARS + MAX_MOVE)

\* C1 as stated: get_valid_action returns an action that is feasible for the
\* state, the destination never above MAX_CARS
C1_ValidActionFeasible ==
    ret.op = "get_valid_action" => Feasible(ArgState, Val(ret))

\* C1 amended: get_valid_action returns an action of magnitude at most
\* MAX_MOVE that takes no more cars than the source holds; the destination
\* may exceed MAX_CARS, by at most MAX_MOVE
C1_ValidActionWithinMove ==
    ret.op = "get_valid_action" => FeasibleOverfull(ArgState, Val(ret))

\* a proposed action was clipped and the destination ends above MAX_CARS
C1_Witness ==
    /\ ret.op = "get_valid_action"
    /\ Val(ret) # ArgAction
    /\ ArgState[2] + Val(ret) > MAX_CARS

\* C2: get_available_actions returns a strictly ascending sequence of
\* actions, each feasible for the state; for (2, 3) it is -3, ..., 2
C2_AvailableActionsFeasible ==
    ret.op = "get_available_actions" =>
        LET actions == ret.actions
        IN  /\ \A i \in 1..(Len(actions) - 1) : actions[i] < actions[i + 1]
            /\ \A i \in 1..Len(actions) : Feasible(ArgState, actions[i])
            /\ ArgState = <<2, 3>> => actions = <<-3, -2, -1, 0, 1, 2>>

\* C3: what policy_iteration returns is the policy table the solver holds
C3_ReturnsPolicy ==
    (pc = "idle" /\ ret.op = "policy_iteration") => ret.value = {policy}

\* C4: every entry of the policy table is an action, between -MAX_MOVE and
\* MAX_MOVE
C4_PolicyEntriesAreActions ==
    \A s \in States : policy[s] \in (0 - MAX_MOVE)..MAX_MOVE

NextMorningsInRange ==
    \A key \in (DOMAIN probs_1) \cup (DOMAIN probs_2) : key[2] \in CarRange

\* C5 as stated: the morning state bellman_expectation works from has both
\* components in [0, MAX_CARS], and so has every next-morning inventory of
\* the Prob tables
C5_MorningWithinMaxCars ==
    /\ (ret.op = "bellman_expectation" /\ ArgState \in States) =>
           (ret.morning # {} /\ ret.morning \subseteq States)
    /\ NextMorningsInRange

\* C5 amended: the morning state has both components in
\* [0, MAX_CARS + MAX_MOVE]; every next-morning inventory of the Prob tables
\* is in [0, MAX_CARS]
C5_MorningWithinModelRange ==
    /\ (ret.op = "bellman_expectation" /\ ArgState \in States) =>
           /\ ret.morning # {}
           /\ \A m \in ret.morning :
                  /\ m[1] \in 0..(MAX_CARS + MAX_MOVE)
                  /\ m[2] \in 0..(MAX_CARS + MAX_MOVE)
    /\ NextMorningsInRange

\* bellman_expectation worked from a morning state above MAX_CARS
C5_Witness ==
    /\ ret.op = "bellman_expectation"
    /\ ArgState \in States
    /\ \E m \in ret.morning : m[1] > MAX_CARS \/ m[2] > MAX_CARS
    /\ ret.value # {}

TablesUntouched ==
    /\ state_values = Zeros
    /\ policy = Zeros
    /\ probs_1 = Model_1.P /\ rewards_1 = Model_1.R
    /\ probs_2 = Model_2.P /\ rewards_2 = Model_2.R

InModelRange(state) ==
    /\ state[1] \in 0..(MAX_CARS + MAX_MOVE)
    /\ state[2] \in 0..(MAX_CARS + MAX_MOVE)

\* C6 as stated: a state with a component outside [0, MAX_CARS] passed to
\* step, bellman_expectation or get_transition_probability is rejected: an
\* error, no result, the tables unchanged
C6_InvalidStateRejected ==
    /\ (/\ ret.op \in {"step", "bellman_expectation",
                       "get_transition_probability"}
        /\ \/ ArgState \notin States
           \/ ret.op = "get_transition_probability" /\ ArgNewState \notin States)
       => (ret.raised # "" /\ ret.value = {})
    /\ TablesUntouched

\* C6 amended: a call fails exactly when a table lookup fails. step and
\* bellman_expectation raise KeyError exactly when the morning state
\* (n1 - a, n2 + a), a the given action for step and the clipped one for
\* bellman_expectation, has a component outside [0, MAX_CARS + MAX_MOVE];
\* get_transition_probability exactly when state has a component outside
\* [0, MAX_CARS + MAX_MOVE] or new_state one outside [0, MAX_CARS]. A call
\* that raised returns no result, and no call changes the tables
C6_LookupFailureRejected ==
    /\ ret.op = "step" =>
           (ret.raised = "KeyError" <=>
               ~InModelRange(<<ArgState[1] - ArgAction,
                               ArgState[2] + ArgAction>>))
    /\ ret.op = "bellman_expectation" =>
           LET a == get_valid_action(ArgState, ArgAction)
           IN  ret.raised = "KeyError" <=>
                   ~InModelRange(<<ArgState[1] - a, ArgState[2] + a>>)
    /\ ret.op = "get_transition_probability" =>
           (ret.raised = "KeyError" <=>
               (~InModelRange(ArgState) \/ ArgNewState \notin States))
    /\ ret.raised \in {"", "KeyError"}
    /\ (ret.raised # "") => (ret.value = {} /\ ret.morning = {})
    /\ (ret.raised = "" /\ ret.op \in {"step", "bellman_expectation",
                                      "get_transition_probability"})
           => ret.value # {}
    /\ TablesUntouched

\* step was given a morning state beyond MAX_CARS + MAX_MOVE and raised
C6_Witness ==
    /\ ret.op = "step"
    /\ ArgState[1] - ArgAction > MAX_CARS + MAX_MOVE
    /\ ret.raised = "KeyError"
    /\ ret.value = {}

\* C7: every call of policy_evaluation and of policy_iteration eventually
\* ends (it returns or it raises), whatever the threshold
C7_EveryCallEnds ==
    (pc # "idle") ~> (pc = "idle")

\* C8: when policy_improvement has just returned True (on its own or as the
\* last round of policy_iteration) and is called again on the same value
\* table, it returns True and leaves the policy as it was
C8_ImprovementIdempotent ==
    [][(/\ pc = "policy_improvement"
        /\ caller = "none"
        /\ cursor = NumStates
        /\ \/ ret.op = "policy_iteration"
           \/ ret.op = "policy_improvement" /\ ret.value = {TRUE})
       => (/\ ret'.op = "policy_improvement"
           /\ ret'.value = {TRUE}
           /\ policy' = policy)]_vars

\* a second scan, after one that returned True, has visited every state
C8_Witness ==
    /\ pc = "policy_improvement"
    /\ caller = "none"
    /\ cursor = NumStates
    /\ ret.op = "policy_improvement"
    /\ ret.value = {TRUE}
    /\ \E s \in States : policy[s] # 0

\* at the end of a sweep every new value is the backup of its state over
\* the table the solver still holds: the one the sweep started from
SweepReadsSnapshot ==
    (pc = "policy_evaluation" /\ cursor = NumStates) =>
        \A s \in States :
            /\ s \in DOMAIN new_values
            /\ new_values[s] = Val(bellman_expectation(s, policy[s]))

ActionValue(s, a) == Val(bellman_expectation(s, a))

\* the lowest action of get_available_actions(s) whose value is the maximum
LowestBest(s) ==
    LET actions == get_available_actions(s)
        n == Len(actions)
        top == SetMax({ActionValue(s, actions[i]) : i \in 1..n})
        Best == {a \in {actions[i] : i \in 1..n} : ActionValue(s, a) = top}
    IN  CHOOSE a \in Best : \A b \in Best : a <= b

\* C10: the action policy_improvement writes for a state is the lowest of
\* the enumerated actions that reach the maximum value
C10_LowestBestAction ==
    (pc = "policy_improvement" /\ cursor > 0) =>
        LET s == StateAt(cursor - 1)
        IN  s \in DOMAIN new_policy /\ new_policy[s] = LowestBest(s)

\* a written state where a higher action ties with the one kept
C10_Witness ==
    /\ pc = "policy_improvement"
    /\ cursor > 0
    /\ \E s \in {StateAt(cursor - 1)} :
           LET actions == get_available_actions(s)
           IN  \E i \in 1..Len(actions) :
                   /\ actions[i] > new_policy[s]
                   /\ ActionValue(s, actions[i]) = ActionValue(s, new_policy[s])

=============================================================================
